---- MODULE Spec2Model ----
\* Model of whispers/fetchEarningsFromWhispers.mjs: one scheduled run of the
\* earnings relay (configuration check, loadState, warm-up and data request,
\* dedup / format / send loop, catch, finally with saveState, total report and
\* webhook release, top-level catch), and consecutive runs over one state file.
EXTENDS Integers, Sequences, FiniteSets, TLC

--------------------------------------------------------------------------
\* Bounds of the model (inputs are drawn from sets of these sizes).

\* longest array (or string) the data request returns
MaxFeedLen == 3
\* longest array the state file holds before the first run
MaxStateLen == 1
\* longest subject, in words, of the formatting model
MaxSubjectLen == 4
\* longest array / string the data request returns in the consecutive-run model
MaxRunFeedLen == 2
\* number of consecutive runs in the consecutive-run model
MaxRuns == 2

--------------------------------------------------------------------------
\* JavaScript values.

\* the value `undefined`
UNDEF == "undefined"

\* A string whose characters matter (a subject, a marker) is the sequence of
\* its characters.

\* the subjects of the two example records (lines 233 and 209)
SubjBeat ==
  <<"H", "C", "A", " ", "H", "e", "a", "l", "t", "h", "c", "a", "r", "e",
    " ", "B", "e", "a", "t", " ", "E", "x", "p", "e", "c", "t", "a", "t",
    "i", "o", "n", "s">>
SubjMissed ==
  <<"C", "e", "n", "t", "e", "n", "e", " ", "M", "i", "s", "s", "e", "d",
    " ", "C", "o", "n", "s", "e", "n", "s", "u", "s", " ", "E", "s", "t",
    "i", "m", "a", "t", "e", "s">>

\* the four string literals of statusEmoji (lines 73, 74, 76, 77)
BeatExpectations ==
  <<"B", "e", "a", "t", " ", "E", "x", "p", "e", "c", "t", "a", "t", "i",
    "o", "n", "s">>
BeatConsensusEstimates ==
  <<"B", "e", "a", "t", " ", "C", "o", "n", "s", "e", "n", "s", "u", "s",
    " ", "E", "s", "t", "i", "m", "a", "t", "e", "s">>
MissedExpectations ==
  <<"M", "i", "s", "s", "e", "d", " ", "E", "x", "p", "e", "c", "t", "a",
    "t", "i", "o", "n", "s">>
MissedConsensusEstimates ==
  <<"M", "i", "s", "s", "e", "d", " ", "C", "o", "n", "s", "e", "n", "s",
    "u", "s", " ", "E", "s", "t", "i", "m", "a", "t", "e", "s">>

\* the value `null` of a revenue field
MNull == <<"null">>

\* A number of a revenue field. The feed gives revenue in millions; the model
\* counts thousandths of a million, so 0.5 is MNum(500) and 999 is
\* MNum(999000).
MNum(n) == <<"num", n>>

\* A report record of the feed is modelled by its key fields, epsDate and
\* ticker, its subject (a field by which two occurrences of one key can
\* differ) and its two revenue fields.

\* The two example records of the source (lines 203-252), and the HCA record
\* as a later feed could repeat it, with another subject.
RecHCA == [tag |-> "rec", epsDate |-> "2025-07-25T07:30:00", ticker |-> "HCA",
           subject |-> SubjBeat,
           revenue |-> MNum(18605000), revenueEstimate |-> MNum(18460000)]
RecCNC == [tag |-> "rec", epsDate |-> "2025-07-27T12:50:00", ticker |-> "CNC",
           subject |-> SubjMissed,
           revenue |-> MNum(48742000), revenueEstimate |-> MNum(44280000)]
RecHCARevised == [RecHCA EXCEPT !.subject = SubjMissed]

\* records that share only one half of a key with an example record
RecCNCSameDate == [RecCNC EXCEPT !.epsDate = RecHCA.epsDate]
RecHCALater == [RecHCA EXCEPT !.epsDate = RecCNC.epsDate]

\* the records feeds and state files are drawn from
Records == {RecHCA, RecCNC, RecHCARevised, RecCNCSameDate, RecHCALater}

\* the records of the consecutive-run model
RunRecords == {RecHCA, RecCNC, RecHCARevised}

\* A one-character string: what `for (const item of data)` yields when data
\* is a string.
Chr == [tag |-> "chr", ch |-> "<"]

\* item.f : a property read. A record has the property; a string has none of
\* the report fields, the read gives undefined;
\* the same of a record that lacks the property.
Prop(item, f) ==
  IF item.tag = "rec" /\ f \in DOMAIN item THEN item[f] ELSE UNDEF

\* a record without the property f
Without(r, f) == [g \in DOMAIN r \ {f} |-> r[g]]

\* sequences over S of length at most n
RECURSIVE SeqsUpTo(_, _)
SeqsUpTo(S, n) ==
  IF n = 0 THEN {<<>>}
  ELSE LET shorter == SeqsUpTo(S, n - 1)
       IN  shorter \cup {Append(s, x) : s \in {t \in shorter : Len(t) = n - 1}, x \in S}

\* Values: [kind, items]. kind "array" holds items; kind "string" holds its
\* characters; "object", "null" and "number" hold nothing the program reads.
Arr(items) == [kind |-> "array", items |-> items]
Str(chars) == [kind |-> "string", items |-> chars]
Obj == [kind |-> "object", items |-> <<>>]
Null == [kind |-> "null", items |-> <<>>]
Num == [kind |-> "number", items |-> <<>>]

\* what the data request can resolve to (axios response data)
Bodies(R, n) ==
  {Arr(s) : s \in SeqsUpTo(R, n)}
    \cup {Str(s) : s \in SeqsUpTo({Chr}, n) \ {<<>>}}
    \cup {Obj, Null}

\* The state file: missing, text that is not valid JSON, or a JSON document
\* (doc is the value the document denotes).
Missing == [kind |-> "missing", doc |-> Null]
Invalid == [kind |-> "invalid", doc |-> Null]
Json(v) == [kind |-> "json", doc |-> v]
Files(R, n) ==
  {Missing, Invalid}
    \cup {Json(v) : v \in {Obj, Null, Num, Str(<<Chr>>)}}
    \cup {Json(Arr(s)) : s \in SeqsUpTo(R, n)}

\* The feeds of consecutive runs: arrays over R, and one body of each other
\* kind.
RunBodies(R, n) ==
  {Arr(s) : s \in SeqsUpTo(R, n)} \cup {Str(<<Chr>>), Obj, Null}

\* The state file before the first of the consecutive runs (the runs
\* themselves make it grow).
RunFiles ==
  {Missing, Invalid, Json(Obj), Json(Null), Json(Arr(<<>>)),
   Json(Arr(<<RecHCA>>))}

\* process.env.DISCORD_EARNINGS_WEBHOOK: unset, empty, or a webhook URL
WebhookUrl == "https://discord.com/api/webhooks/1/t"
EnvValues == {UNDEF, "", WebhookUrl}

--------------------------------------------------------------------------
VARIABLES
  env,        \* DISCORD_EARNINGS_WEBHOOK
  file,       \* content of STATE_FILE
  upstream,   \* what /api/todaysresults answers when the request succeeds
  pc,         \* position of the process
  state,      \* main's `state`
  data,       \* main's `data`
  idx,        \* position of the for-of iterator in data (1-based)
  embed,      \* the embed built for the current item
  loaded,     \* history: the value loadState returned in this run
  caught,     \* history: what the catch block of main caught ("none" if nothing)
  topErr,     \* history: what escaped main to main().catch ("none" if nothing)
  formatted,  \* history: items for which the embed chain was started, in order
  attempts,   \* history: webhook.send calls of this run, [item, ok], in order
  io,         \* history: counters [reads, writes, requests, destroys] and
              \*          sendsAtWrite, the number of sends made before the write
  wrote,      \* history: fs.writeFile of this run succeeded
  totalLog,   \* history: sequence of values printed as "Total records"
  exitCode,   \* process exit code, -1 while running
  run,        \* number of the run (1-based)
  prev,       \* history: the previous run, if it succeeded: the file it left
              \*          and the feed it saw; clean: the state file was missing
              \*          or an array before the first run and every state
              \*          write of the earlier runs succeeded
  delivered   \* history: items the sink accepted, over all runs

vars == <<env, file, upstream, pc, state, data, idx, embed, loaded, caught,
          topErr, formatted, attempts, io, wrote, totalLog, exitCode, run,
          prev, delivered>>

NoEmbed == [title |-> UNDEF]
NoPrev(clean) ==
  [ok |-> FALSE, file |-> Missing, upstream |-> Null, clean |-> clean]
Io0 == [reads |-> 0, writes |-> 0, requests |-> 0, destroys |-> 0, sendsAtWrite |-> 0]

\* the state file is missing or holds an array
MissingOrArray(f) ==
  f.kind = "missing" \/ (f.kind = "json" /\ f.doc.kind = "array")

\* the process image at start: nothing of main has run
Fresh ==
  /\ pc = "boot"
  /\ state = Null /\ data = Null /\ idx = 1 /\ embed = NoEmbed
  /\ loaded = Null /\ caught = "none" /\ topErr = "none"
  /\ formatted = <<>> /\ attempts = <<>> /\ io = Io0
  /\ wrote = FALSE /\ totalLog = <<>> /\ exitCode = -1

Init ==
  /\ env \in EnvValues
  /\ file \in Files(Records, MaxStateLen)
  /\ upstream \in Bodies(Records, MaxFeedLen)
  /\ Fresh
  /\ run = 1 /\ prev = NoPrev(MissingOrArray(file)) /\ delivered = <<>>

--------------------------------------------------------------------------
\* Pure parts of the program.

\* faulty variant: only an unset variable is rejected (`=== undefined`)
ConfigMissingStrict(e) == e = UNDEF

\* `!DISCORD_EARNINGS_WEBHOOK` (line 10): unset and the empty string are falsy
ConfigMissing(e) == e = UNDEF \/ e = ""

\* faulty variant: only the read is guarded: text that does not parse gives null
loadStateParseUnguarded(f) ==
  IF f.kind = "missing" THEN Arr(<<>>)
  ELSE IF f.kind = "invalid" THEN Null
  ELSE f.doc

\* loadState (lines 20-26): readFile throws on a missing file, JSON.parse on
\* invalid text, both are swallowed and give []; otherwise the parsed value,
\* whatever it is.
loadState(f) == IF f.kind \in {"missing", "invalid"} THEN Arr(<<>>) ELSE f.doc

\* JSON.stringify(state, null, 2) written by saveState (line 31)
Stringify(v) == Json(v)

\* `for (const item of data)` (line 66): arrays and strings are iterable,
\* null and a plain object are not (TypeError)
Iterable(v) == v.kind \in {"array", "string"}

\* `state.some` (line 67) is a function only when state is an array
HasSome(v) == v.kind = "array"

\* faulty variant: the dedup compares whole records
ExistsWholeRecord(st, item) == \E i \in 1..Len(st.items) : st.items[i] = item

\* state.some((e) => e.epsDate === item.epsDate && e.ticker === item.ticker)
Exists(st, item) ==
  \E i \in 1..Len(st.items) :
    /\ Prop(st.items[i], "epsDate") = Prop(item, "epsDate")
    /\ Prop(st.items[i], "ticker") = Prop(item, "ticker")

\* String.prototype.includes: the characters of pat occur in s, one after
\* the other, at some position
Includes(s, pat) ==
  \E k \in 0..(Len(s) - Len(pat)) : \A j \in 1..Len(pat) : s[k + j] = pat[j]

\* item.subject?.includes(pat): undefined (falsy) when subject is undefined
SubjectIncludes(item, pat) ==
  IF Prop(item, "subject") = UNDEF THEN FALSE
  ELSE Includes(Prop(item, "subject"), pat)

\* faulty variant: the Missed markers are tested before the Beat markers
statusEmojiMissedFirst(item) ==
  IF SubjectIncludes(item, MissedExpectations)
       \/ SubjectIncludes(item, MissedConsensusEstimates)
    THEN "red"
  ELSE IF SubjectIncludes(item, BeatExpectations)
            \/ SubjectIncludes(item, BeatConsensusEstimates)
    THEN "green"
  ELSE "blue"

\* statusEmoji (lines 72-79): green is POSITIVE, red NEGATIVE, blue NEUTRAL
statusEmoji(item) ==
  IF SubjectIncludes(item, BeatExpectations)
       \/ SubjectIncludes(item, BeatConsensusEstimates)
    THEN "green"
  ELSE IF SubjectIncludes(item, MissedExpectations)
            \/ SubjectIncludes(item, MissedConsensusEstimates)
    THEN "red"
  ELSE "blue"

\* the number of binary digits of n
RECURSIVE BitLen(_)
BitLen(n) == IF n = 0 THEN 0 ELSE 1 + BitLen(n \div 2)

\* The IEEE double nearest to a quotient, against the quotient itself: -1 if
\* the double is smaller, 0 if equal, 1 if larger. The quotient is written in
\* binary digit by digit: r / den is what remains below the digits written,
\* have counts the significant digits written (53 make a double), last is
\* the last digit. What remains is rounded to nearest, ties to even.
RECURSIVE DoubleSide(_, _, _, _)
DoubleSide(r, den, have, last) ==
  IF have = 53
    THEN IF r = 0 THEN 0
         ELSE IF 2 * r < den THEN -1
         ELSE IF 2 * r > den THEN 1
         ELSE IF last = 1 THEN 1 ELSE -1
  ELSE IF r = 0 THEN 0
  ELSE LET b == (2 * r) \div den
       IN  DoubleSide((2 * r) % den, den,
                      IF have = 0 /\ b = 0 THEN 0 ELSE have + 1, b)

\* Number.prototype.toFixed(2) of the double nearest to num / den, as a count
\* of hundredths. toFixed takes the n for which n / 100 is nearest to the
\* exact value of the double, the larger n of two; a negative number is
\* formatted as its magnitude with a minus sign. So a quotient that lies
\* halfway between two hundredths goes the way its double lies from it
\* (1.005 is stored slightly below and gives 1.00, 1.125 is exact and gives
\* 1.13). For den = 1000000 the quotient is (m / 1000) of a number m given
\* with three decimals: it is halfway only when m is an integer, and then
\* m / 1000 is the double nearest to num / den.
Fixed2(num, den) ==
  LET a == IF num < 0 THEN -num ELSE num
      q == IF den % 100 = 0 THEN den \div 100 ELSE den
      s == IF den % 100 = 0 THEN a ELSE a * 100
      h == s \div q
      rem == s % q
      up == \/ 2 * rem > q
            \/ /\ 2 * rem = q
               /\ DoubleSide(a % den, den, BitLen(a \div den),
                             (a \div den) % 2) >= 0
      mag == IF up THEN h + 1 ELSE h
  IN  IF num < 0 THEN -mag ELSE mag

\* faulty variant: the billions threshold is `m > 1000`
fmtMoneyOffByOne(m) ==
  IF m = UNDEF \/ m = MNull THEN "N/A"
  ELSE IF m[2] > 1000000 THEN <<"$", Fixed2(m[2], 1000000), "B">>
  ELSE IF m[2] >= 1000 THEN <<"$", Fixed2(m[2], 1000), "M">>
  ELSE <<"$", Fixed2(m[2], 1), "K">>

\* fmtMoney (lines 81-88): `m == null` holds for null and undefined; m > 999
\* gives (m / 1000).toFixed(2) B, m >= 1 gives m.toFixed(2) M, anything else
\* (m * 1000).toFixed(2) K. The result is <<"$", hundredths, unit>> or "N/A".
fmtMoney(m) ==
  IF m = UNDEF \/ m = MNull THEN "N/A"
  ELSE IF m[2] > 999000 THEN <<"$", Fixed2(m[2], 1000000), "B">>
  ELSE IF m[2] >= 1000 THEN <<"$", Fixed2(m[2], 1000), "M">>
  ELSE <<"$", Fixed2(m[2], 1), "K">>

\* the embed (lines 90-173): title, URL, the Earnings Date field and the two
\* revenue fields
BuildEmbed(item) ==
  [title |-> <<statusEmoji(item), Prop(item, "ticker"), Prop(item, "subject")>>,
   url |-> Prop(item, "ticker"),
   date |-> Prop(item, "epsDate"),
   revenue |-> fmtMoney(Prop(item, "revenue")),
   revenueEstimate |-> fmtMoney(Prop(item, "revenueEstimate"))]

\* faulty variant: the item is added with unshift, at the front
PushFront(st, item) == Arr(<<item>> \o st.items)

\* faulty variant: the item is appended with concat, whose result is dropped
PushDropped(st, item) == st

\* state.push(item) (line 180)
Push(st, item) == Arr(Append(st.items, item))

\* faulty variant: the item is recorded before the send is awaited
StateAfterSendEager(st, item, ok) == Push(st, item)

\* lines 175-180: state after `await webhook.send(...)`; a rejected send leaves
\* the try block before state.push
StateAfterSend(st, item, ok) == IF ok THEN Push(st, item) ELSE st

\* lines 187-188: where control is after `await saveState(state)`: a rejected
\* write leaves the finally block and main
AfterSave(ok) == IF ok THEN "total" ELSE "topcatch"

\* state.length (line 188): arrays and strings have one, an object or a number
\* gives undefined; on null the read throws
Length(v) == IF v.kind \in {"array", "string"} THEN Len(v.items) ELSE UNDEF
LengthThrows(v) == v.kind = "null"

--------------------------------------------------------------------------
\* Steps of the process.

Item == data.items[idx]

\* faulty variant: no try around the body of main: the error leaves main at once
ThrowEscapes(what) == /\ caught' = what
                      /\ pc' = "topcatch"

\* faulty variant: the error is caught inside the loop and the step is retried
ThrowRetries(what) == /\ caught' = what
                      /\ pc' = "loop"

\* a throw inside the try block of main (lines 40-183): control goes to catch
Throw(what) == /\ caught' = what
               /\ pc' = "catch"

\* lines 9-13: the configuration check; on a missing value exit code 1
CheckConfig ==
  /\ pc = "boot"
  /\ IF ConfigMissing(env)
       THEN pc' = "exited" /\ exitCode' = 1
       ELSE pc' = "load" /\ exitCode' = exitCode
  /\ UNCHANGED <<env, file, upstream, state, data, idx, embed, loaded, caught,
                 topErr, formatted, attempts, io, wrote, totalLog, run, prev,
                 delivered>>

\* line 36: const state = await loadState()
LoadState ==
  /\ pc = "load"
  /\ state' = loadState(file)
  /\ loaded' = loadState(file)
  /\ io' = [io EXCEPT !.reads = @ + 1]
  /\ pc' = "warmup"
  /\ UNCHANGED <<env, file, upstream, data, idx, embed, caught, topErr,
                 formatted, attempts, wrote, totalLog, exitCode, run, prev,
                 delivered>>

\* lines 42-48: the warm-up request; it resolves or rejects
WarmUp ==
  /\ pc = "warmup"
  /\ io' = [io EXCEPT !.requests = @ + 1]
  /\ \E ok \in BOOLEAN :
       IF ok THEN pc' = "fetch" /\ caught' = caught
       ELSE Throw("warmup")
  /\ UNCHANGED <<env, file, upstream, state, data, idx, embed, loaded, topErr,
                 formatted, attempts, wrote, totalLog, exitCode, run, prev,
                 delivered>>

\* lines 51-63: the data request; it resolves to the body or rejects
FetchData ==
  /\ pc = "fetch"
  /\ io' = [io EXCEPT !.requests = @ + 1]
  /\ \E ok \in BOOLEAN :
       IF ok THEN /\ data' = upstream
                  /\ idx' = 1
                  /\ pc' = "loop"
                  /\ caught' = caught
       ELSE /\ Throw("fetch")
            /\ UNCHANGED <<data, idx>>
  /\ UNCHANGED <<env, file, upstream, state, embed, loaded, topErr, formatted,
                 attempts, wrote, totalLog, exitCode, run, prev, delivered>>

\* line 66: data is not iterable, for-of throws a TypeError
IterateThrows ==
  /\ pc = "loop"
  /\ ~Iterable(data)
  /\ Throw("iterate")
  /\ UNCHANGED <<env, file, upstream, state, data, idx, embed, loaded, topErr,
                 formatted, attempts, io, wrote, totalLog, exitCode, run, prev,
                 delivered>>

\* line 66: the iterator is exhausted, the try block completes
LoopEnd ==
  /\ pc = "loop"
  /\ Iterable(data)
  /\ idx > Len(data.items)
  /\ pc' = "save"
  /\ UNCHANGED <<env, file, upstream, state, data, idx, embed, loaded, caught,
                 topErr, formatted, attempts, io, wrote, totalLog, exitCode,
                 run, prev, delivered>>

\* line 67: state is not an array, state.some is not a function (TypeError)
SomeThrows ==
  /\ pc = "loop"
  /\ Iterable(data)
  /\ idx <= Len(data.items)
  /\ ~HasSome(state)
  /\ Throw("some")
  /\ UNCHANGED <<env, file, upstream, state, data, idx, embed, loaded, topErr,
                 formatted, attempts, io, wrote, totalLog, exitCode, run, prev,
                 delivered>>

\* lines 67-70: the item's key is in state, continue with the next item
SkipExisting ==
  /\ pc = "loop"
  /\ Iterable(data)
  /\ idx <= Len(data.items)
  /\ HasSome(state)
  /\ Exists(state, Item)
  /\ idx' = idx + 1
  /\ UNCHANGED <<env, file, upstream, pc, state, data, embed, loaded, caught,
                 topErr, formatted, attempts, io, wrote, totalLog, exitCode,
                 run, prev, delivered>>

\* lines 72-173: the item is new, build its embed; the embed builder or a
\* toFixed / replace on a field of the wrong type can throw
Format ==
  /\ pc = "loop"
  /\ Iterable(data)
  /\ idx <= Len(data.items)
  /\ HasSome(state)
  /\ ~Exists(state, Item)
  /\ formatted' = Append(formatted, Item)
  /\ \E ok \in BOOLEAN :
       IF ok THEN /\ embed' = BuildEmbed(Item)
                  /\ pc' = "send"
                  /\ caught' = caught
       ELSE /\ Throw("format")
            /\ embed' = embed
  /\ UNCHANGED <<env, file, upstream, state, data, idx, loaded, topErr,
                 attempts, io, wrote, totalLog, exitCode, run, prev, delivered>>

\* lines 175-181: await webhook.send(...); on success state.push(item)
Send ==
  /\ pc = "send"
  /\ \E ok \in BOOLEAN :
       /\ attempts' = Append(attempts, [item |-> Item, ok |-> ok])
       /\ state' = StateAfterSend(state, Item, ok)
       /\ IF ok THEN /\ delivered' = Append(delivered, Item)
                     /\ pc' = "sleep"
                     /\ caught' = caught
          ELSE /\ Throw("send")
               /\ delivered' = delivered
  /\ UNCHANGED <<env, file, upstream, data, idx, embed, loaded, topErr,
                 formatted, io, wrote, totalLog, exitCode, run, prev>>

\* faulty variant: the state file is also written after every send
SleepSaving ==
  /\ pc = "sleep"
  /\ idx' = idx + 1
  /\ embed' = NoEmbed
  /\ pc' = "loop"
  /\ file' = Stringify(state)
  /\ io' = [io EXCEPT !.writes = @ + 1, !.sendsAtWrite = Len(attempts)]
  /\ UNCHANGED <<env, upstream, state, data, loaded, caught, topErr,
                 formatted, attempts, wrote, totalLog, exitCode, run, prev,
                 delivered>>

\* line 182: await sleep(SLEEP_BETWEEN_SENDS), then the next iteration
Sleep ==
  /\ pc = "sleep"
  /\ idx' = idx + 1
  /\ embed' = NoEmbed
  /\ pc' = "loop"
  /\ UNCHANGED <<env, file, upstream, state, data, loaded, caught, topErr,
                 formatted, attempts, io, wrote, totalLog, exitCode, run, prev,
                 delivered>>

\* faulty variant: the catch block ends the process (process.exit(1))
CatchExits ==
  /\ pc = "catch"
  /\ pc' = "exited"
  /\ exitCode' = 1
  /\ UNCHANGED <<env, file, upstream, state, data, idx, embed, loaded, caught,
                 topErr, formatted, attempts, io, wrote, totalLog, run, prev,
                 delivered>>

\* lines 184-186: the catch block logs the error; finally follows
Catch ==
  /\ pc = "catch"
  /\ pc' = "save"
  /\ UNCHANGED <<env, file, upstream, state, data, idx, embed, loaded, caught,
                 topErr, formatted, attempts, io, wrote, totalLog, exitCode,
                 run, prev, delivered>>

\* line 187 (saveState, lines 28-33): fs.writeFile resolves, or rejects and the
\* rejection leaves the finally block and main; a failed write leaves the file
\* as it was or truncated
SaveState ==
  /\ pc = "save"
  /\ io' = [io EXCEPT !.writes = @ + 1, !.sendsAtWrite = Len(attempts)]
  /\ \E ok \in BOOLEAN :
       /\ pc' = AfterSave(ok)
       /\ IF ok THEN /\ file' = Stringify(state)
                     /\ wrote' = TRUE
                     /\ topErr' = topErr
          ELSE /\ file' \in {file, Invalid}
               /\ wrote' = wrote
               /\ topErr' = "write"
  /\ UNCHANGED <<env, upstream, state, data, idx, embed, loaded, caught,
                 formatted, attempts, totalLog, exitCode, run, prev, delivered>>

\* line 188: console.log(`Total records: ${state.length}`)
Total ==
  /\ pc = "total"
  /\ IF LengthThrows(state)
       THEN /\ topErr' = "total"
            /\ pc' = "topcatch"
            /\ totalLog' = totalLog
       ELSE /\ totalLog' = Append(totalLog, Length(state))
            /\ pc' = "destroy"
            /\ topErr' = topErr
  /\ UNCHANGED <<env, file, upstream, state, data, idx, embed, loaded, caught,
                 formatted, attempts, io, wrote, exitCode, run, prev, delivered>>

\* line 189: await webhook.destroy?.(); main resolves, the process ends with 0
Destroy ==
  /\ pc = "destroy"
  /\ io' = [io EXCEPT !.destroys = @ + 1]
  /\ pc' = "exited"
  /\ exitCode' = 0
  /\ UNCHANGED <<env, file, upstream, state, data, idx, embed, loaded, caught,
                 topErr, formatted, attempts, wrote, totalLog, run, prev,
                 delivered>>

\* faulty variant: the top-level handler exits without releasing the webhook
TopCatchNoDestroy ==
  /\ pc = "topcatch"
  /\ pc' = "exited"
  /\ exitCode' = 1
  /\ UNCHANGED <<env, file, upstream, state, data, idx, embed, loaded, caught,
                 topErr, formatted, attempts, io, wrote, totalLog, run, prev,
                 delivered>>

\* lines 193-197: main().catch: log, webhook.destroy?.(), process.exit(1)
TopCatch ==
  /\ pc = "topcatch"
  /\ io' = [io EXCEPT !.destroys = @ + 1]
  /\ pc' = "exited"
  /\ exitCode' = 1
  /\ UNCHANGED <<env, file, upstream, state, data, idx, embed, loaded, caught,
                 topErr, formatted, attempts, wrote, totalLog, run, prev,
                 delivered>>

Next ==
  \/ CheckConfig
  \/ LoadState
  \/ WarmUp
  \/ FetchData
  \/ IterateThrows
  \/ LoopEnd
  \/ SomeThrows
  \/ SkipExisting
  \/ Format
  \/ Send
  \/ Sleep
  \/ Catch
  \/ SaveState
  \/ Total
  \/ Destroy
  \/ TopCatch

\* one run of the program
Spec == Init /\ [][Next]_vars

--------------------------------------------------------------------------
\* The formatting of one record: a run whose feed holds a single record, with
\* the subject or the two revenue fields drawn from the inputs below.

\* the pieces of text subjects are made of
Vocabulary ==
  {<<"B", "e", "a", "t">>,
   <<"M", "i", "s", "s", "e", "d">>,
   <<"b", "e", "a", "t">>,
   <<"O", "f", "f">>,
   <<"!">>,
   <<" ", "E", "x", "p", "e", "c", "t", "a", "t", "i", "o", "n", "s">>,
   <<" ", "C", "o", "n", "s", "e", "n", "s", "u", "s", " ", "E", "s", "t",
     "i", "m", "a", "t", "e", "s">>}

\* the pieces of ps, one after the other, as one string
RECURSIVE Glue(_)
Glue(ps) == IF ps = <<>> THEN <<>> ELSE Head(ps) \o Glue(Tail(ps))

\* subjects of up to MaxSubjectLen pieces
SubjectInputs == {Glue(ps) : ps \in SeqsUpTo(Vocabulary, MaxSubjectLen)}

\* revenue values: null, numbers around the two thresholds, and numbers
\* halfway between two hundredths (1.005, 1.125, 1005)
MoneyInputs ==
  {MNull} \cup
    {MNum(n) : n \in {-500, 0, 500, 999, 1000, 1005, 1125, 1500, 998990,
                      999000, 999001, 999500, 1000000, 1005000, 48742000}}

\* the CNC record with another subject, with other revenue fields, or
\* without one of these fields
FormatRecords ==
  {[RecCNC EXCEPT !.subject = s] : s \in SubjectInputs}
    \cup {[RecCNC EXCEPT !.revenue = a, !.revenueEstimate = b] :
            a \in MoneyInputs, b \in MoneyInputs}
    \cup {Without(RecCNC, f) : f \in {"subject", "revenue", "revenueEstimate"}}

InitFormat ==
  /\ env = WebhookUrl
  /\ file \in {Missing, Json(Obj), Json(Arr(<<RecCNC>>))}
  /\ upstream \in {Obj} \cup {Arr(<<r>>) : r \in FormatRecords}
  /\ Fresh
  /\ run = 1 /\ prev = NoPrev(MissingOrArray(file)) /\ delivered = <<>>

\* one run over a single-record feed
SpecFormat == InitFormat /\ [][Next]_vars

--------------------------------------------------------------------------
\* Consecutive runs: the program is started again by its scheduler after the
\* previous process has ended. The state file is what the previous run left;
\* the upstream feed is unchanged or has changed.

\* the run that just ended fetched, sent every new item and wrote the state
RunSucceeded == pc = "exited" /\ exitCode = 0 /\ caught = "none" /\ wrote

StartNextRun ==
  /\ pc = "exited"
  /\ run < MaxRuns
  /\ run' = run + 1
  /\ prev' = IF RunSucceeded
              THEN [ok |-> TRUE, file |-> file, upstream |-> upstream,
                    clean |-> prev.clean]
              ELSE NoPrev(prev.clean /\ (io.writes = 0 \/ wrote))
  /\ upstream' \in RunBodies(RunRecords, MaxRunFeedLen)
  /\ pc' = "boot"
  /\ state' = Null /\ data' = Null /\ idx' = 1 /\ embed' = NoEmbed
  /\ loaded' = Null /\ caught' = "none" /\ topErr' = "none"
  /\ formatted' = <<>> /\ attempts' = <<>> /\ io' = Io0
  /\ wrote' = FALSE /\ totalLog' = <<>> /\ exitCode' = -1
  /\ UNCHANGED <<env, file, delivered>>

InitRuns ==
  /\ env \in EnvValues
  /\ file \in RunFiles
  /\ upstream \in RunBodies(RunRecords, MaxRunFeedLen)
  /\ Fresh
  /\ run = 1 /\ prev = NoPrev(MissingOrArray(file)) /\ delivered = <<>>

NextRuns == Next \/ StartNextRun

\* consecutive runs over one state file
SpecRuns == InitRuns /\ [][NextRuns]_vars

\* One run in which every step that can be taken is taken: each awaited call
\* (file read and write, the two requests, a send, the delay) returns or
\* throws, and the event loop then resumes main.
SpecLive == InitRuns /\ [][Next]_vars /\ WF_vars(Next)

--------------------------------------------------------------------------
\* Vocabulary of the claims.

\* two items carry the same (epsDate, ticker) key
SameKey(a, b) ==
  /\ Prop(a, "epsDate") = Prop(b, "epsDate")
  /\ Prop(a, "ticker") = Prop(b, "ticker")

\* the key of x is the key of some element of seq
KeyIn(x, seq) == \E i \in 1..Len(seq) : SameKey(seq[i], x)

\* x is an element of seq
ElemOf(x, seq) == \E i \in 1..Len(seq) : seq[i] = x

\* The new items of a feed against a base state, in feed order: the items
\* whose key is neither in base nor carried by an earlier item of the feed.
RECURSIVE NewItemsFrom(_, _, _)
NewItemsFrom(base, feed, i) ==
  IF i > Len(feed) THEN <<>>
  ELSE IF KeyIn(feed[i], base) \/ KeyIn(feed[i], SubSeq(feed, 1, i - 1))
    THEN NewItemsFrom(base, feed, i + 1)
  ELSE <<feed[i]>> \o NewItemsFrom(base, feed, i + 1)
NewItems(base, feed) == NewItemsFrom(base, feed, 1)

Configured == env \notin {UNDEF, ""}
FetchFailed == caught \in {"warmup", "fetch"}

\* C1: when the send of the Nth new item fails, the state from then on, the
\* value handed to the state write and the file after a successful write are
\* the loaded state followed by exactly the first N-1 new items; the Nth and
\* the later new items are not in it.
C1_PartialFailureState ==
  caught = "send" =>
    LET new == NewItems(loaded.items, data.items)
        n == Len(attempts)
    IN  /\ n \in 1..Len(new)
        /\ attempts[n] = [item |-> new[n], ok |-> FALSE]
        /\ \A k \in 1..(n - 1) : attempts[k] = [item |-> new[k], ok |-> TRUE]
        /\ state = Arr(loaded.items \o SubSeq(new, 1, n - 1))
        /\ wrote => file = Json(Arr(loaded.items \o SubSeq(new, 1, n - 1)))
        /\ \A k \in n..Len(new) : ~ElemOf(new[k], state.items)

\* the second new item failed after a duplicate key was passed over, with a
\* non-empty loaded state, and the state was written
C1_Witness ==
  /\ caught = "send" /\ wrote /\ pc = "exited"
  /\ Len(attempts) = 2 /\ idx = 3
  /\ Len(loaded.items) = 1

\* C2: a feed record whose key is the key of a record of the loaded state is
\* never formatted, never sent and never appended, whatever its other fields.
C2_DedupAgainstLoaded ==
  /\ \A i \in 1..Len(formatted) : ~KeyIn(formatted[i], loaded.items)
  /\ \A i \in 1..Len(attempts) : ~KeyIn(attempts[i].item, loaded.items)
  /\ pc = "send" => ~KeyIn(Item, loaded.items)
  /\ state.kind = "array" =>
       \A i \in (Len(loaded.items) + 1)..Len(state.items) :
         ~KeyIn(state.items[i], loaded.items)

\* the feed repeated a loaded record's key with another subject, the loop went
\* past it, and another record was sent
C2_Witness ==
  /\ pc = "exited" /\ caught = "none" /\ data.kind = "array"
  /\ Len(attempts) >= 1
  /\ loaded.kind = "array" /\ Len(loaded.items) = 1
  /\ \E i \in 1..Len(data.items) :
       /\ SameKey(data.items[i], loaded.items[1])
       /\ data.items[i] # loaded.items[1]

\* C3: after a run that fetched, sent every new item and wrote the state, a
\* run against the same feed formats nothing, attempts no send, keeps the
\* state it loaded, and the state it writes is the one the first run wrote.
C3_SecondRunIdle ==
  (run >= 2 /\ prev.ok /\ upstream = prev.upstream) =>
    /\ attempts = <<>> /\ formatted = <<>>
    /\ state = loaded
    /\ io.reads = 1 => Json(loaded) = prev.file
    /\ io.writes = 0 => file = prev.file
    /\ wrote => file = prev.file

\* the first run sent two records, the second run against the same feed has
\* ended and has written the state
C3_Witness ==
  /\ run = 2 /\ prev.ok /\ upstream = prev.upstream
  /\ pc = "exited" /\ wrote /\ exitCode = 0
  /\ Len(delivered) = 2 /\ Len(loaded.items) = 2 /\ Len(data.items) = 2

\* C4: when the warm-up request or the data request fails, no send is
\* attempted, the state stays the loaded state, the state write is made and
\* what it writes is the loaded state.
C4_FetchFailureKeepsState ==
  FetchFailed =>
    /\ attempts = <<>> /\ formatted = <<>>
    /\ state = loaded
    /\ wrote => file = Json(loaded)
    /\ pc = "exited" => io.writes = 1

C4_Witness ==
  /\ caught = "fetch" /\ pc = "exited" /\ wrote
  /\ Len(loaded.items) = 1

\* C5: when the data request resolves to a body that is not an array, nothing
\* is sent and nothing is appended to state.
C5_NonArrayBodyIsFetchFailure ==
  (pc \notin {"boot", "load", "warmup", "fetch"} /\ ~FetchFailed
     /\ data.kind # "array")
    => /\ attempts = <<>>
       /\ state = loaded

\* C6: in a run that passed the configuration check the state write is made
\* exactly once, and no send is attempted after it.
C6_WriteOnceAfterSends ==
  /\ io.writes <= 1
  /\ (pc = "exited" /\ Configured) => io.writes = 1
  /\ io.writes = 1 => io.sendsAtWrite = Len(attempts)
  /\ pc \in {"load", "warmup", "fetch", "loop", "send", "sleep", "catch", "save"}
       => io.writes = 0

\* the send-failure path, with sends before the write
C6_Witness ==
  /\ pc = "exited" /\ caught = "send" /\ io.writes = 1 /\ Len(attempts) = 2

\* C7: after a failed state write the total record count is still reported.
C7_TotalReportedAfterFailedWrite ==
  (io.writes = 1 /\ ~wrote /\ pc = "exited") => Len(totalLog) = 1

\* C8: with the webhook configuration absent the process exits with code 1
\* and has read no file, written no file, made no request and sent nothing.
C8_MissingConfigExitsFirst ==
  env \in {UNDEF, ""} =>
    /\ pc \in {"boot", "exited"}
    /\ pc = "exited" => exitCode = 1
    /\ io = Io0 /\ attempts = <<>> /\ formatted = <<>>
    /\ state = Null /\ wrote = FALSE

C8_Witness == env = "" /\ pc = "exited" /\ file.kind = "json"

\* C9: loading from a missing file or from text that is not JSON gives the
\* empty array and no error: nothing is caught, nothing reaches the top-level
\* handler, and the run goes on to the warm-up request.
C9_CorruptStateIsEmpty ==
  (io.reads = 1 /\ io.writes = 0 /\ file.kind \in {"missing", "invalid"}) =>
    /\ loaded = Arr(<<>>)
    /\ topErr = "none" /\ exitCode = -1
    /\ pc = "warmup" => (state = Arr(<<>>) /\ caught = "none")

\* a run that loaded invalid text is sending its first item
C9_Witness ==
  /\ file = Invalid /\ io.reads = 1 /\ io.writes = 0
  /\ pc = "send" /\ state = Arr(<<>>)

\* C10: an error of the fetch or of the delivery loop is caught inside main:
\* it never reaches the top-level handler, and a run in which nothing else
\* fails ends with exit code 0.
C10_DeliveryErrorsKeepExitZero ==
  /\ pc = "topcatch" => topErr \in {"write", "total"}
  /\ (pc = "exited" /\ caught # "none" /\ topErr = "none") => exitCode = 0
  /\ (pc = "exited" /\ Configured /\ exitCode # 0) => topErr \in {"write", "total"}

C10_Witness == pc = "exited" /\ caught = "send" /\ exitCode = 0

\* C11: a run that passed the configuration check ends with the webhook
\* released exactly once, on the success path, after a fetch failure, after a
\* send failure and after a failed state write; it is never released before
\* the state write has been attempted.
C11_WebhookReleased ==
  /\ (pc = "exited" /\ Configured) => io.destroys = 1
  /\ io.destroys <= 1
  /\ io.destroys = 1 => (pc = "exited" /\ io.writes = 1)

\* the state write failed after a send failure and the process has ended
C11_Witness ==
  /\ pc = "exited" /\ topErr = "write" /\ caught = "send" /\ io.destroys = 1

\* C12: with the state file holding the HCA record, the feed returning the
\* CNC record and then the HCA record, and nothing failing, the run sends one
\* notification, for CNC (classified negative, revenue $48.74B), and writes
\* the state HCA, CNC.
C12_EndToEnd ==
  (loaded = Arr(<<RecHCA>>) /\ data = Arr(<<RecCNC, RecHCA>>)
     /\ caught = "none" /\ topErr = "none") =>
    /\ \A i \in 1..Len(attempts) : i = 1 /\ attempts[i].item = RecCNC
    /\ pc = "send" =>
         (embed.title[1] = "red" /\ embed.revenue = <<"$", 4874, "B">>)
    /\ pc = "exited" =>
         /\ attempts = <<[item |-> RecCNC, ok |-> TRUE]>>
         /\ wrote
         /\ file = Json(Arr(<<RecHCA, RecCNC>>))

C12_Witness ==
  /\ loaded = Arr(<<RecHCA>>) /\ data = Arr(<<RecCNC, RecHCA>>)
  /\ caught = "none" /\ topErr = "none" /\ pc = "exited"

\* pat is a substring of s
Contains(s, pat) ==
  \E i \in 1..Len(s) :
    /\ i + Len(pat) - 1 <= Len(s)
    /\ SubSeq(s, i, i + Len(pat) - 1) = pat

HasBeatMarker(s) ==
  \/ Contains(s, BeatExpectations)
  \/ Contains(s, BeatConsensusEstimates)

HasMissedMarker(s) ==
  \/ Contains(s, MissedExpectations)
  \/ Contains(s, MissedConsensusEstimates)

\* the subject of the item being sent; an absent subject holds no marker
SentSubject == IF "subject" \in DOMAIN Item THEN Item.subject ELSE <<>>

\* C13: the classification in the title is positive when the subject holds a
\* Beat marker (also when it holds a Missed marker too), negative when it
\* holds a Missed marker and no Beat marker, neutral when it holds neither or
\* is absent.
C13_Classification ==
  pc = "send" =>
    /\ HasBeatMarker(SentSubject) => embed.title[1] = "green"
    /\ (HasMissedMarker(SentSubject) /\ ~HasBeatMarker(SentSubject))
         => embed.title[1] = "red"
    /\ (~HasMissedMarker(SentSubject) /\ ~HasBeatMarker(SentSubject))
         => embed.title[1] = "blue"

\* a subject with a Missed marker in front of a Beat marker is being sent
C13_Witness ==
  /\ pc = "send"
  /\ SentSubject = MissedExpectations \o BeatExpectations
  /\ embed.title[1] = "green"

\* the formatted text `out` is the number of thousandths n at the scale the
\* thresholds give: billions above 999, millions from 1 to 999, thousands below
ScaledAsClaimed(n, out) ==
  IF n > 999000 THEN /\ out[3] = "B"
                     /\ out[2] * 10000 - n \in -5000..5000
  ELSE IF n >= 1000 THEN /\ out[3] = "M"
                         /\ out[2] * 10 - n \in -5..5
  ELSE /\ out[3] = "K"
       /\ out[2] = n * 100

\* the field f of the item being sent is formatted as the claim says
MoneyAsClaimed(f) ==
  IF f \notin DOMAIN Item THEN embed[f] = "N/A"
  ELSE IF Item[f] = MNull THEN embed[f] = "N/A"
  ELSE embed[f] # "N/A" /\ ScaledAsClaimed(Item[f][2], embed[f])

\* C14: null or missing gives N/A; m > 999 gives billions, 1 <= m <= 999
\* millions, m < 1 thousands; 999 is $999.00M, 1000 is $1.00B, 0.5 is
\* $500.00K; revenue and revenueEstimate are each scaled from their own value.
C14_MoneyScale ==
  (pc = "send" /\ Item.tag = "rec") =>
    /\ MoneyAsClaimed("revenue")
    /\ MoneyAsClaimed("revenueEstimate")
    /\ \A f \in {"revenue", "revenueEstimate"} :
         f \in DOMAIN Item =>
           /\ Item[f] = MNum(999000) => embed[f] = <<"$", 99900, "M">>
           /\ Item[f] = MNum(1000000) => embed[f] = <<"$", 100, "B">>
           /\ Item[f] = MNum(500) => embed[f] = <<"$", 50000, "K">>

\* a record with revenue 999 and revenueEstimate 1000 is being sent
C14_Witness ==
  /\ pc = "send"
  /\ {"revenue", "revenueEstimate"} \subseteq DOMAIN Item
  /\ Item.revenue = MNum(999000) /\ Item.revenueEstimate = MNum(1000000)
  /\ embed.revenue[3] = "M" /\ embed.revenueEstimate[3] = "B"

\* the items of the successful sends of this run, in the order of the sends
RECURSIVE SentFrom(_, _)
SentFrom(att, i) ==
  IF i > Len(att) THEN <<>>
  ELSE IF att[i].ok THEN <<att[i].item>> \o SentFrom(att, i + 1)
  ELSE SentFrom(att, i + 1)
SentItems == SentFrom(attempts, 1)

\* C15: at every point of a run the in-memory state is the loaded state,
\* unchanged and in its order, followed by exactly the items whose send has
\* succeeded so far, in the order of the sends.
C15_StateIsLoadedPlusSent ==
  IF loaded.kind = "array"
    THEN state = Arr(loaded.items \o SentItems)
    ELSE state = loaded /\ attempts = <<>>

\* two sends have succeeded on top of a loaded record
C15_Witness ==
  /\ pc = "sleep" /\ Len(loaded.items) = 1
  /\ Len(attempts) = 2 /\ Len(SentItems) = 2

\* no two elements of seq carry the same key
NoDupKeys(seq) ==
  \A i \in 1..Len(seq) : \A j \in 1..Len(seq) :
    i # j => ~SameKey(seq[i], seq[j])

\* C16: no item is sent twice in a run; a failed send is the last send of the
\* run and a failed formatting is followed by no send; after either the loop
\* is left and the state holds only what was sent before.
C16_NoRetryNoFurtherSend ==
  /\ NoDupKeys([i \in 1..Len(attempts) |-> attempts[i].item])
  /\ NoDupKeys(formatted)
  /\ \A i \in 1..Len(attempts) :
       ~attempts[i].ok => (i = Len(attempts) /\ caught = "send")
  /\ caught = "send" =>
       /\ Len(attempts) = Len(formatted)
       /\ ~attempts[Len(attempts)].ok
  /\ caught = "format" =>
       /\ Len(attempts) = Len(formatted) - 1
       /\ \A i \in 1..Len(attempts) : attempts[i].item = formatted[i]
  /\ caught \in {"format", "send"} =>
       /\ pc \in {"catch", "save", "total", "destroy", "topcatch", "exited"}
       /\ Len(state.items) = Len(loaded.items) + Len(formatted) - 1

\* the second new item failed to send and a third record of the feed, also
\* new, was left alone
C16_Witness ==
  /\ pc = "exited" /\ caught = "send" /\ Len(attempts) = 2 /\ idx = 2
  /\ Len(data.items) = 3
  /\ ~KeyIn(data.items[3], state.items)
  /\ ~SameKey(data.items[3], data.items[2])

\* C17 as stated: whatever the state file holds, the loaded state is a
\* sequence, and the run reaches the state write and the total report.
C17_LoadGivesSequence ==
  /\ io.reads = 1 => loaded.kind = "array"
  /\ (pc = "exited" /\ Configured /\ wrote) => Len(totalLog) = 1

\* C19: of the feed records with one key at most one is sent in a run, and a
\* loaded state without repeated keys stays without repeated keys, in memory
\* and in the file the run writes.
C19_NoDuplicateKeys ==
  /\ \A i \in 1..Len(data.items) :
       Cardinality({k \in 1..Len(attempts) :
                      SameKey(attempts[k].item, data.items[i])}) <= 1
  /\ (loaded.kind = "array" /\ NoDupKeys(loaded.items)) =>
       /\ NoDupKeys(state.items)
       /\ wrote => NoDupKeys(file.doc.items)

\* the feed repeated a new key with another subject, the run sent one of the
\* two and wrote the state
C19_Witness ==
  /\ pc = "exited" /\ caught = "none" /\ wrote /\ data.kind = "array"
  /\ Len(attempts) = 1
  /\ \E i \in 1..Len(data.items) : \E j \in 1..Len(data.items) :
       /\ i < j
       /\ SameKey(data.items[i], data.items[j])
       /\ data.items[i] # data.items[j]
       /\ ~KeyIn(data.items[i], loaded.items)

\* C18: every run that passed the configuration check reaches the state write
\* at the end of the run.
C18_ReachesStateWrite == (pc = "load") ~> (io.writes = 1)

\* the write was reached after a failed send
C18_Witness == io.writes = 1 /\ caught = "send" /\ Len(attempts) = 2

\* C20: over consecutive runs on one state file that was missing or an array
\* at first, with every state write so far successful, no key has been
\* accepted by the sink twice, whatever requests and sends failed.
C20_DeliveredOnceOverRuns == prev.clean => NoDupKeys(delivered)

\* the second run skipped what the first run delivered and delivered another
\* record
C20_Witness ==
  /\ run = 2 /\ prev.clean /\ pc = "exited"
  /\ Len(delivered) = 2 /\ Len(attempts) = 1
  /\ data.kind = "array" /\ KeyIn(delivered[1], data.items)

====
